---- MODULE Spec2Model ----
(***************************************************************************)
(* go-peek: the global asset cache (pkg/intel/global.go) and the           *)
(* enrichment handler (pkg/enrich/enrich.go).                              *)
(*                                                                         *)
(* SpecEnrich models one enrich.Handler over its backing store: AddAsset,   *)
(* Enrich, and NewHandler scanning the store again.                        *)
(*                                                                         *)
(* SpecCache models one GlobalCache: the sync.Map of assets, concurrent    *)
(* GetIP callers, the housekeeper goroutine with its two tickers, the      *)
(* persistence file, Close and a later NewGlobalCache on the same path.    *)
(* Time is counted in seconds and advances by TimeStep per Tick; a record  *)
(* keeps its age (now - updated), saturating above the prune period.       *)
(***************************************************************************)
EXTENDS Integers, Sequences, FiniteSets, TLC

(***************************************************************************)
(* Program constants.                                                      *)
(***************************************************************************)
PruneInterval == 30
PrunePeriod == 120
DumpInterval == 5
ErrChanMax == 100

(***************************************************************************)
(* Bounds of the model.                                                    *)
(***************************************************************************)
\* errors sent to the error channel in one behaviour
MaxErrs == 1

\* addresses looked up, in their textual form
Addrs == {"10.0.0.1", "10.0.0.2"}
\* net.IP holds an address in a 4-byte or a 16-byte form; the keys passed to
\* GetIP: one address in each form
NetIPs == {[addr |-> "10.0.0.1", len |-> 4], [addr |-> "10.0.0.2", len |-> 16]}
\* goroutines calling GetIP
Callers == {"c1", "c2"}
\* the clock's step: one step takes a record past the prune period and both
\* tickers past their intervals; a record's age saturates there
TimeStep == PrunePeriod + PruneInterval
MaxAge == TimeStep

VARIABLES
    assets,        \* gc.assets: key (string) -> Asset, a partial map
    wise,          \* gc.wise # nil
    pruneEnabled,  \* gc.prune.enabled
    persistAssets, \* gc.persist.assets # ""
    file,          \* the persistence file: a sequence of JSON lines
    errs,          \* gc.Errs: number of errors queued
    cancelled,     \* gc.ctx is done
    wg,            \* gc.wg counter
    hk,            \* the housekeeper goroutine's position
    elapsed,       \* seconds since the housekeeper created its tickers
    todo,          \* prune Range: keys not yet visited
    pending,       \* prune Range: key whose Delete is due, or ""
    closePc,       \* Close(): "idle", "waiting" (in wg.Wait), "returned"
    callers,       \* per caller: its position inside GetIP
    ret,           \* what GetIP returned, if the last step was a return
    dumpFresh,     \* history: a dump cycle ran and the cache has not changed since
    drainCycles,   \* history: prune and dump cycles the running housekeeper
                   \* has started since ctx was cancelled, counted up to two
    registry,      \* Handler.assets: key -> providentia.Record
    badger,        \* the backing store under badgerPrefix: key -> record
    missingLookupSet, \* Handler.missingLookupSet, as the set of its keys
    counts,        \* Handler.Counts
    enriched,      \* what Enrich was given and left, until its caller takes it
    ingested,      \* history: the records passed to AddAsset of this handler
    decoded,       \* what Decode was given and returned, until its caller takes it
    goroutines,    \* per goroutine sharing the handler: its position in AddAsset
    calls,         \* history: AddAsset calls the goroutines have made
    raced          \* history: two goroutines were at the handler's maps at once,
                   \* one of them writing

cacheVars == <<assets, wise, pruneEnabled, persistAssets, file, errs, cancelled,
               wg, hk, elapsed, todo, pending, closePc, callers, ret, dumpFresh,
               drainCycles>>

concVars == <<goroutines, calls, raced>>

enrichVars == <<registry, badger, missingLookupSet, counts, enriched, ingested,
                decoded, concVars>>

vars == <<cacheVars, enrichVars>>

(***************************************************************************)
(* Pure helpers.                                                           *)
(***************************************************************************)
Min(a, b) == IF a < b THEN a ELSE b

\* net.IP.String(): both forms of an address print as the same text
IPString(ip) == ip.addr

\* net.ParseIP: the 16-byte form of the address
ParseIP(text) == [addr |-> text, len |-> 16]

\* Asset{updated: time.Now()}: an empty, negative record
NewAsset == [IsAsset |-> FALSE, age |-> 0, ip |-> ""]

\* Asset.JSON(): the exported fields only; `updated` is unexported
AssetJSON(a) == [IsAsset |-> a.IsAsset, ip |-> a.ip]

\* json.Unmarshal into Asset, then obj.Update(): updated = now
UnmarshalAsset(line) ==
    [IsAsset |-> line.IsAsset, age |-> 0, ip |-> IPString(ParseIP(line.ip))]

\* now.Sub(a.updated) > gc.prune.period && !a.IsAsset
Prunable(a) == a.age > PrunePeriod /\ ~a.IsAsset

\* utils.ErrChan.Send: queued unless the channel is full
ErrSend(n) == IF n < ErrChanMax THEN n + 1 ELSE n

\* all orderings of a finite set, as sequences (sync.Map.Range order)
RECURSIVE Orders(_)
Orders(S) ==
    IF S = {} THEN {<<>>}
    ELSE UNION {{<<x>> \o s : s \in Orders(S \ {x})} : x \in S}

\* the map built by the load loop of NewGlobalCache, last line wins
RECURSIVE LoadLines(_, _)
LoadLines(lines, m) ==
    IF lines = <<>> THEN m
    ELSE LET obj == UnmarshalAsset(Head(lines))
             dom == DOMAIN m \cup {obj.ip}
         IN LoadLines(Tail(lines),
                      [k \in dom |-> IF k = obj.ip THEN obj ELSE m[k]])

EmptyMap == [k \in {} |-> NewAsset]

IdleCaller == [pc |-> "idle", key |-> "", age |-> 0]
NoRet == [key |-> "", found |-> FALSE, IsAsset |-> FALSE, ip |-> ""]

(***************************************************************************)
(* NewGlobalCache                                                          *)
(***************************************************************************)
Configs == [Wise : BOOLEAN, Prune : BOOLEAN, DumpJSONAssets : BOOLEAN]

\* the state NewGlobalCache(c) leaves, loading from persistence file f
Constructed(c, f) ==
    /\ assets' = IF c.DumpJSONAssets THEN LoadLines(f, EmptyMap) ELSE EmptyMap
    /\ pruneEnabled' = c.Prune
    /\ persistAssets' = c.DumpJSONAssets
    /\ wise' = c.Wise
    /\ cancelled' = FALSE
    /\ wg' = 0
    /\ hk' = "spawned"
    /\ elapsed' = 0
    /\ todo' = {}
    /\ pending' = ""
    /\ closePc' = "idle"
    /\ callers' = [c2 \in Callers |-> IdleCaller]
    /\ ret' = NoRet
    /\ dumpFresh' = FALSE
    /\ drainCycles' = 0
    /\ errs' = 0

InitCache ==
    /\ \E c \in Configs :
        /\ assets = EmptyMap
        /\ pruneEnabled = c.Prune
        /\ persistAssets = c.DumpJSONAssets
        /\ wise = c.Wise
    /\ file = <<>>
    /\ errs = 0
    /\ cancelled = FALSE
    /\ wg = 0
    /\ hk = "spawned"
    /\ elapsed = 0
    /\ todo = {}
    /\ pending = ""
    /\ closePc = "idle"
    /\ callers = [c \in Callers |-> IdleCaller]
    /\ ret = NoRet
    /\ dumpFresh = FALSE
    /\ drainCycles = 0

\* a later NewGlobalCache with the same configuration and persistence file,
\* after the previous cache was closed and its housekeeper is gone
NewGlobalCache(c) ==
    /\ c = [Wise |-> wise, Prune |-> pruneEnabled, DumpJSONAssets |-> persistAssets]
    /\ closePc = "returned"
    /\ hk = "exited"
    /\ \A cl \in Callers : callers[cl].pc = "idle"
    /\ Constructed(c, file)
    /\ UNCHANGED file
    /\ UNCHANGED enrichVars

(***************************************************************************)
(* GetIP                                                                   *)
(***************************************************************************)
\* sync.Map.Store
Store(m, k, v) == [x \in DOMAIN m \cup {k} |-> IF x = k THEN v ELSE m[x]]

\* sync.Map.Delete
Delete(m, k) == [x \in DOMAIN m \ {k} |-> m[x]]

\* what GetIP hands back: the record and the boolean
Return(k, a, found) ==
    [key |-> k, found |-> found, IsAsset |-> a.IsAsset, ip |-> a.ip]

\* a hit that reports the record as not found
GetIPHitNotFound(c, key) ==
    /\ callers[c].pc = "idle"
    /\ IPString(key) \in DOMAIN assets
    /\ ret' = Return(IPString(key), assets[IPString(key)], FALSE)
    /\ UNCHANGED <<assets, wise, pruneEnabled, persistAssets, file, errs,
                   cancelled, wg, hk, elapsed, todo, pending, closePc,
                   callers, dumpFresh>>
    /\ UNCHANGED <<drainCycles, enrichVars>>

\* lines 203-210: the key is in the map
GetIPHit(c, key) ==
    /\ callers[c].pc = "idle"
    /\ IPString(key) \in DOMAIN assets
    /\ ret' = Return(IPString(key), assets[IPString(key)], TRUE)
    /\ UNCHANGED <<assets, wise, pruneEnabled, persistAssets, file, errs,
                   cancelled, wg, hk, elapsed, todo, pending, closePc,
                   callers, dumpFresh>>
    /\ UNCHANGED <<drainCycles, enrichVars>>

\* lines 212-215: a miss with no directory handle returns the new record
GetIPNoWise(c, key) ==
    /\ callers[c].pc = "idle"
    /\ IPString(key) \notin DOMAIN assets
    /\ ~wise
    /\ ret' = Return(IPString(key), NewAsset, FALSE)
    /\ UNCHANGED <<assets, wise, pruneEnabled, persistAssets, file, errs,
                   cancelled, wg, hk, elapsed, todo, pending, closePc,
                   callers, dumpFresh>>
    /\ UNCHANGED <<drainCycles, enrichVars>>

\* lines 212-216: a miss with a directory handle enters wise.GetAsset
GetIPMiss(c, key) ==
    /\ callers[c].pc = "idle"
    /\ IPString(key) \notin DOMAIN assets
    /\ wise
    /\ callers' = [callers EXCEPT
                     ![c] = [pc |-> "wise", key |-> IPString(key), age |-> 0]]
    /\ ret' = NoRet
    /\ UNCHANGED <<assets, wise, pruneEnabled, persistAssets, file, errs,
                   cancelled, wg, hk, elapsed, todo, pending, closePc,
                   dumpFresh>>
    /\ UNCHANGED <<drainCycles, enrichVars>>

WiseOutcomes == {"data", "notfound", "error"}

\* a resolution that takes every answer but "not found" for data
ResolvedIgnoringErr(c, outcome) ==
    IF outcome # "notfound"
    THEN [IsAsset |-> TRUE, age |-> callers[c].age, ip |-> callers[c].key]
    ELSE [NewAsset EXCEPT !.age = callers[c].age]

\* the record GetIP holds after wise.GetAsset returned `outcome`
Resolved(c, outcome) ==
    IF outcome = "data"
    THEN [IsAsset |-> TRUE, age |-> callers[c].age, ip |-> callers[c].key]
    ELSE [NewAsset EXCEPT !.age = callers[c].age]

\* lines 216-230: wise.GetAsset returns; the record is stored and returned
GetIPStore(c, outcome) ==
    /\ callers[c].pc = "wise"
    /\ outcome = "error" => errs < MaxErrs
    /\ errs' = IF outcome = "error" THEN ErrSend(errs) ELSE errs
    /\ assets' = Store(assets, callers[c].key, Resolved(c, outcome))
    /\ ret' = Return(callers[c].key, Resolved(c, outcome), FALSE)
    /\ callers' = [callers EXCEPT ![c] = IdleCaller]
    /\ dumpFresh' = FALSE
    /\ UNCHANGED <<wise, pruneEnabled, persistAssets, file, cancelled, wg,
                   hk, elapsed, todo, pending, closePc>>
    /\ UNCHANGED <<drainCycles, enrichVars>>

(***************************************************************************)
(* The housekeeper goroutine                                               *)
(***************************************************************************)
\* of two tickers created together, the one a parked select is woken by
FirstTicker == IF DumpInterval <= PruneInterval THEN "wokenDump" ELSE "wokenTick"

\* lines 98-105: the goroutine starts, wg.Add(1), and creates its tickers
HkStart ==
    /\ hk = "spawned"
    /\ wg' = wg + 1
    /\ hk' = "tickers"
    /\ elapsed' = 0
    /\ ret' = NoRet
    /\ UNCHANGED <<assets, wise, pruneEnabled, persistAssets, file, errs,
                   cancelled, todo, pending, closePc, callers, dumpFresh>>
    /\ UNCHANGED <<drainCycles, enrichVars>>

\* line 106: select finds no case ready and parks the goroutine
HkPark ==
    /\ hk = "tickers"
    /\ ~cancelled
    /\ elapsed < DumpInterval
    /\ elapsed < PruneInterval
    /\ hk' = "parked"
    /\ ret' = NoRet
    /\ UNCHANGED <<assets, wise, pruneEnabled, persistAssets, file, errs,
                   cancelled, wg, elapsed, todo, pending, closePc, callers, dumpFresh>>
    /\ UNCHANGED <<drainCycles, enrichVars>>

\* lines 107-108, 101, 178: case <-gc.ctx.Done(), break loop, wg.Done()
HkCtxDone ==
    /\ hk = "wokenDone" \/ (hk = "tickers" /\ cancelled)
    /\ hk' = "exited"
    /\ wg' = wg - 1
    /\ drainCycles' = 0
    /\ ret' = NoRet
    /\ UNCHANGED <<assets, wise, pruneEnabled, persistAssets, file, errs,
                   cancelled, elapsed, todo, pending, closePc, callers,
                   dumpFresh>>
    /\ UNCHANGED enrichVars

\* lines 109-116: case <-tick.C; the Range starts unless pruning is off
HkTick ==
    /\ hk = "wokenTick" \/ (hk = "tickers" /\ elapsed >= PruneInterval)
    /\ IF pruneEnabled
       THEN hk' = "prune" /\ todo' = DOMAIN assets /\ elapsed' = elapsed
       ELSE hk' = "tickers" /\ todo' = todo /\ elapsed' = 0
    /\ drainCycles' = IF cancelled /\ pruneEnabled
                      THEN Min(drainCycles + 1, 2) ELSE drainCycles
    /\ ret' = NoRet
    /\ UNCHANGED <<assets, wise, pruneEnabled, persistAssets, file, errs,
                   cancelled, wg, pending, closePc, callers, dumpFresh>>
    /\ UNCHANGED enrichVars

\* lines 116-120: Range hands one entry to the callback, which tests it
PruneVisit(k) ==
    /\ hk = "prune"
    /\ pending = ""
    /\ k \in todo
    /\ IF k \in DOMAIN assets /\ Prunable(assets[k])
       THEN pending' = k /\ todo' = todo
       ELSE pending' = pending /\ todo' = todo \ {k}
    /\ ret' = NoRet
    /\ UNCHANGED <<assets, wise, pruneEnabled, persistAssets, file, errs,
                   cancelled, wg, hk, elapsed, closePc, callers,
                   dumpFresh>>
    /\ UNCHANGED <<drainCycles, enrichVars>>

\* line 121: gc.assets.Delete(k) removes whatever the key holds by now
PruneDelete ==
    /\ hk = "prune"
    /\ pending # ""
    /\ assets' = Delete(assets, pending)
    /\ todo' = todo \ {pending}
    /\ pending' = ""
    /\ dumpFresh' = FALSE
    /\ ret' = NoRet
    /\ UNCHANGED <<wise, pruneEnabled, persistAssets, file, errs, cancelled,
                   wg, hk, elapsed, closePc, callers>>
    /\ UNCHANGED <<drainCycles, enrichVars>>

\* lines 133-136: the Range is over, the loop creates new tickers
PruneDone ==
    /\ hk = "prune"
    /\ pending = ""
    /\ todo = {}
    /\ hk' = "tickers"
    /\ elapsed' = 0
    /\ ret' = NoRet
    /\ UNCHANGED <<assets, wise, pruneEnabled, persistAssets, file, errs,
                   cancelled, wg, todo, pending, closePc, callers,
                   dumpFresh>>
    /\ UNCHANGED <<drainCycles, enrichVars>>

\* a scan that collects every record
AnyRecord(m) == DOMAIN m

\* the keys Range collects into `stuff`
Positive(m) == {k \in DOMAIN m : m[k].IsAsset}

\* lines 165-175: one JSON line per collected record
DumpLines(m, order) == [i \in 1..Len(order) |-> AssetJSON(m[order[i]])]

\* lines 137-176: case <-dump.C
HkDump ==
    /\ hk = "wokenDump" \/ (hk = "tickers" /\ elapsed >= DumpInterval)
    /\ hk' = "tickers"
    /\ elapsed' = 0
    /\ \/ /\ ~persistAssets
          /\ UNCHANGED <<file, errs, dumpFresh>>
       \/ /\ persistAssets
          /\ Positive(assets) = {}
          /\ dumpFresh' = TRUE
          /\ UNCHANGED <<file, errs>>
       \/ /\ persistAssets
          /\ Positive(assets) # {}
          /\ errs < MaxErrs
          /\ errs' = ErrSend(errs)
          /\ UNCHANGED <<file, dumpFresh>>
       \/ /\ persistAssets
          /\ Positive(assets) # {}
          /\ \E order \in Orders(Positive(assets)) :
                file' = DumpLines(assets, order)
          /\ dumpFresh' = TRUE
          /\ UNCHANGED errs
    /\ drainCycles' = IF cancelled /\ persistAssets
                      THEN Min(drainCycles + 1, 2) ELSE drainCycles
    /\ ret' = NoRet
    /\ UNCHANGED <<assets, wise, pruneEnabled, persistAssets, cancelled, wg,
                   todo, pending, closePc, callers>>
    /\ UNCHANGED enrichVars

(***************************************************************************)
(* Close                                                                   *)
(***************************************************************************)
\* lines 190-192: g.stopper(); a parked select is woken by ctx.Done()
CloseCancel ==
    /\ closePc = "idle"
    /\ cancelled' = TRUE
    /\ closePc' = "waiting"
    /\ hk' = IF hk = "parked" THEN "wokenDone" ELSE hk
    /\ ret' = NoRet
    /\ UNCHANGED <<assets, wise, pruneEnabled, persistAssets, file, errs, wg,
                   elapsed, todo, pending, callers, dumpFresh>>
    /\ UNCHANGED <<drainCycles, enrichVars>>

\* lines 193-196: g.wg.Wait() returns once the counter is zero
CloseReturn ==
    /\ closePc = "waiting"
    /\ wg = 0
    /\ closePc' = "returned"
    /\ ret' = NoRet
    /\ UNCHANGED <<assets, wise, pruneEnabled, persistAssets, file, errs,
                   cancelled, wg, hk, elapsed, todo, pending, callers,
                   dumpFresh>>
    /\ UNCHANGED <<drainCycles, enrichVars>>

(***************************************************************************)
(* Time                                                                    *)
(***************************************************************************)
Older(a) == [a EXCEPT !.age = Min(a.age + TimeStep, MaxAge)]

\* TimeStep seconds pass.  A parked select is woken by the ticker that
\* fires first; tickers not yet selected on keep their value.  A prune
\* Range compares against the `now` it read at its start and is short
\* against the clock's step, so no time passes inside it.
Tick ==
    /\ hk # "prune"
    /\ assets' = [k \in DOMAIN assets |-> Older(assets[k])]
    /\ callers' = [c \in Callers |->
                     IF callers[c].pc = "wise" THEN Older(callers[c])
                     ELSE callers[c]]
    /\ elapsed' = IF hk = "tickers"
                  THEN Min(elapsed + TimeStep, PruneInterval)
                  ELSE elapsed
    /\ hk' = IF hk = "parked" THEN FirstTicker ELSE hk
    /\ ret' = NoRet
    /\ UNCHANGED <<wise, pruneEnabled, persistAssets, file, errs, cancelled,
                   wg, todo, pending, closePc, dumpFresh>>
    /\ UNCHANGED <<drainCycles, enrichVars>>

(***************************************************************************)
(* The enrichment handler (pkg/enrich/enrich.go)                           *)
(***************************************************************************)
\* AddAsset calls on one handler
MaxPickups == 3

\* a nil net.IP, a nil *meta.Asset, a nil *meta.GameAsset
NilIP == [addr |-> "", len |-> 0]
NilAsset == [ip |-> NilIP, host |-> "", rec |-> "nil"]
NilGameAsset == [Asset |-> NilAsset, Source |-> NilAsset, Destination |-> NilAsset]

\* providentia.Record: the records the registry source knows.  r2 shares its
\* host with r1 and its address with r3.
Records ==
    {[name |-> "r1", ip |-> "10.0.0.1", host |-> "web01"],
     [name |-> "r2", ip |-> "10.0.0.2", host |-> "web01"],
     [name |-> "r3", ip |-> "10.0.0.2", host |-> "web02"]}

\* providentia.Record.Keys(): the address and the host name of the record
Keys(r) == <<r.ip, r.host>>

\* providentia.Record.Asset(): the record's asset projection
RecordAsset(r) == [ip |-> ParseIP(r.ip), host |-> r.host, rec |-> r.name]

\* meta.Asset stubs of decoded events: {IP, Host} and nothing else filled in
StubIPs == {NilIP, [addr |-> "10.0.0.1", len |-> 4], [addr |-> "10.0.0.2", len |-> 16]}
StubHosts == {"", "web01", "web02"}
Stubs == [ip : StubIPs, host : StubHosts, rec : {""}]

\* events.GameEvent, by what GetAsset() returns: nil or a meta.GameAsset
\* the events offered to Enrich: any stub as the asset, with a source known
\* by host alone, or a destination known by address alone, or neither
GameAssets ==
    {g \in [Asset : Stubs,
            Source : {NilAsset} \cup {a \in Stubs : a.ip = NilIP /\ a.host # ""},
            Destination : {NilAsset} \cup {a \in Stubs : a.ip # NilIP /\ a.host = ""}] :
        g.Source = NilAsset \/ g.Destination = NilAsset}
Events == GameAssets \cup {NilGameAsset}

NoEnrich == [in |-> NilGameAsset, out |-> NilGameAsset, err |-> "", called |-> FALSE]
NoMap == [k \in {} |-> NilAsset]
ZeroCounts ==
    [Events |-> 0, MissingMeta |-> 0, AssetPickups |-> 0, AssetUpdates |-> 0,
     Assets |-> 0,
     ParseErrs |-> [Suricata |-> 0, Windows |-> 0, Syslog |-> 0, Snoopy |-> 0]]

\* events.Atomic: the kinds Decode has a case for, and one it has none for
Kinds == {"SuricataE", "EventLogE", "SysmonE", "SyslogE", "SnoopyE", "other"}
NoDecode == [kind |-> "", event |-> "nil", err |-> "nil", called |-> FALSE]

\* goroutines calling into one shared Handler
Goroutines == {"g1", "g2"}
NoRecord == [name |-> "", ip |-> "", host |-> ""]
IdleGoroutine == [pc |-> "idle", value |-> NoRecord, tmp |-> 0, i |-> 0]

SeqToSet(q) == {q[i] : i \in 1..Len(q)}

\* a scan that writes the first key of a record only
InsertFirstKey(m, keys, obj) ==
    IF keys = <<>> THEN m ELSE Store(m, Head(keys), obj)

\* lines 171-173: every key of one scanned record is written to the map
RECURSIVE InsertKeys(_, _, _)
InsertKeys(m, keys, obj) ==
    IF keys = <<>> THEN m
    ELSE InsertKeys(Store(m, Head(keys), obj), Tail(keys), obj)

\* lines 164-174: the map built from the records in the order scanned
RECURSIVE ScanInto(_, _)
ScanInto(m, recs) ==
    IF recs = <<>> THEN m
    ELSE ScanInto(InsertKeys(m, Keys(Head(recs)), Head(recs)), Tail(recs))

\* persist.Badger.Scan(badgerPrefix): the stored values, in the order `order`
\* of their keys
Scan(order) == [i \in 1..Len(order) |-> badger[order[i]]]

InitEnrich ==
    /\ registry = NoMap
    /\ badger = NoMap
    /\ missingLookupSet = {}
    /\ counts = ZeroCounts
    /\ enriched = NoEnrich
    /\ ingested = {}
    /\ decoded = NoDecode
    /\ goroutines = [g \in Goroutines |-> IdleGoroutine]
    /\ calls = 0
    /\ raced = FALSE

\* lines 158-181: NewHandler over the store as it is
NewHandler(order) ==
    /\ ~enriched.called
    /\ ~decoded.called
    /\ SeqToSet(order) = DOMAIN badger
    /\ Len(order) = Cardinality(DOMAIN badger)
    /\ registry' = ScanInto(NoMap, Scan(order))
    /\ missingLookupSet' = {}
    /\ counts' = [ZeroCounts EXCEPT
                    !.Assets = Cardinality(DOMAIN ScanInto(NoMap, Scan(order)))]
    /\ enriched' = NoEnrich
    /\ ingested' = {}
    /\ decoded' = NoDecode
    /\ UNCHANGED badger
    /\ UNCHANGED <<cacheVars, concVars>>

\* a loop that writes every key, present or not
RECURSIVE AddKeysAlways(_, _, _)
AddKeysAlways(st, keys, value) ==
    IF keys = <<>> THEN st
    ELSE AddKeysAlways(<<Store(st[1], Head(keys), value),
                         Store(st[2], Head(keys), value),
                         st[3] + 1>>,
                       Tail(keys), value)

\* lines 73-80: the loop of AddAsset over value.Keys(), on <<registry, store,
\* AssetUpdates>>
RECURSIVE AddKeys(_, _, _)
AddKeys(st, keys, value) ==
    IF keys = <<>> THEN st
    ELSE IF Head(keys) \in DOMAIN st[1]
         THEN AddKeys(st, Tail(keys), value)
         ELSE AddKeys(<<Store(st[1], Head(keys), value),
                        Store(st[2], Head(keys), value),
                        st[3] + 1>>,
                      Tail(keys), value)

\* lines 71-83
AddAsset(value) ==
    /\ ~enriched.called
    /\ ~decoded.called
    /\ counts.AssetPickups < MaxPickups
    /\ LET st == AddKeys(<<registry, badger, counts.AssetUpdates>>,
                         Keys(value), value)
       IN /\ registry' = st[1]
          /\ badger' = st[2]
          /\ counts' = [counts EXCEPT
                          !.AssetPickups = counts.AssetPickups + 1,
                          !.AssetUpdates = st[3],
                          !.Assets = Cardinality(DOMAIN st[1])]
    /\ ingested' = ingested \cup {value}
    /\ enriched' = NoEnrich
    /\ UNCHANGED <<missingLookupSet, decoded>>
    /\ UNCHANGED <<cacheVars, concVars>>

\* a lookup that tries the host before the address
assetLookupHostFirst(reg, asset) ==
    IF asset.host # "" /\ asset.host \in DOMAIN reg
    THEN RecordAsset(reg[asset.host])
    ELSE IF asset.ip # NilIP /\ IPString(asset.ip) \in DOMAIN reg
         THEN RecordAsset(reg[IPString(asset.ip)])
         ELSE asset

\* lines 139-152: the asset assetLookup returns
assetLookup(reg, asset) ==
    IF asset.ip # NilIP /\ IPString(asset.ip) \in DOMAIN reg
    THEN RecordAsset(reg[IPString(asset.ip)])
    ELSE IF asset.host # "" /\ asset.host \in DOMAIN reg
         THEN RecordAsset(reg[asset.host])
         ELSE asset

\* a lookup that records every host it did not find by address
lookupMissesAnyHost(reg, asset) ==
    IF asset = NilAsset THEN {}
    ELSE IF asset.ip # NilIP /\ IPString(asset.ip) \in DOMAIN reg THEN {}
    ELSE IF asset.host # "" THEN {asset.host}
    ELSE {}

\* lines 145-150: the hosts assetLookup adds to missingLookupSet
lookupMisses(reg, asset) ==
    IF asset = NilAsset THEN {}
    ELSE IF asset.ip # NilIP /\ IPString(asset.ip) \in DOMAIN reg THEN {}
    ELSE IF asset.host # "" /\ asset.host \notin DOMAIN reg THEN {asset.host}
    ELSE {}

\* lines 128-134: the event's sub-objects after the three lookups
Replaced(reg, fullAsset) ==
    [Asset |-> assetLookup(reg, fullAsset.Asset),
     Source |-> IF fullAsset.Source # NilAsset
                THEN assetLookup(reg, fullAsset.Source) ELSE NilAsset,
     Destination |-> IF fullAsset.Destination # NilAsset
                     THEN assetLookup(reg, fullAsset.Destination)
                     ELSE NilAsset]

\* an Enrich without the nil test of lines 124-126
EnrichNoCheck(event) ==
    /\ ~enriched.called
    /\ ~decoded.called
    /\ enriched' = [in |-> event, out |-> Replaced(registry, event),
                    err |-> "", called |-> TRUE]
    /\ missingLookupSet' =
           missingLookupSet
               \cup lookupMisses(registry, event.Asset)
               \cup lookupMisses(registry, event.Source)
               \cup lookupMisses(registry, event.Destination)
    /\ UNCHANGED <<registry, badger, counts, ingested, decoded>>
    /\ UNCHANGED <<cacheVars, concVars>>

\* lines 122-137
Enrich(event) ==
    /\ ~enriched.called
    /\ ~decoded.called
    /\ IF event = NilGameAsset
       THEN /\ enriched' = [in |-> event, out |-> event,
                            err |-> "ErrMissingAssetData", called |-> TRUE]
            /\ UNCHANGED missingLookupSet
       ELSE /\ enriched' = [in |-> event, out |-> Replaced(registry, event),
                            err |-> "", called |-> TRUE]
            /\ missingLookupSet' =
                   missingLookupSet
                       \cup lookupMisses(registry, event.Asset)
                       \cup lookupMisses(registry, event.Source)
                       \cup lookupMisses(registry, event.Destination)
    /\ UNCHANGED <<registry, badger, counts, ingested, decoded>>
    /\ UNCHANGED <<cacheVars, concVars>>

\* Decode calls on one handler
MaxDecodes == 1

\* the field of Counts.ParseErrs a failed decode of `kind` counts in
ParseErrCounter(kind) ==
    CASE kind = "SuricataE" -> "Suricata"
      [] kind \in {"EventLogE", "SysmonE"} -> "Windows"
      [] kind = "SyslogE" -> "Syslog"
      [] kind = "SnoopyE" -> "Snoopy"

\* lines 85-120: Decode of raw bytes that json.Unmarshal accepts (ok) or
\* rejects, as an event of `kind`
Decode(ok, kind) ==
    /\ ~enriched.called
    /\ ~decoded.called
    /\ counts.Events < MaxDecodes
    /\ IF kind = "other"
       THEN /\ counts' = [counts EXCEPT !.Events = counts.Events + 1]
            /\ decoded' = [kind |-> kind, event |-> "nil", err |-> "nil",
                           called |-> TRUE]
       ELSE IF ok
       THEN /\ counts' = [counts EXCEPT !.Events = counts.Events + 1]
            /\ decoded' = [kind |-> kind, event |-> kind, err |-> "nil",
                           called |-> TRUE]
       ELSE /\ counts' = [counts EXCEPT
                            !.Events = counts.Events + 1,
                            !.ParseErrs[ParseErrCounter(kind)] =
                                counts.ParseErrs[ParseErrCounter(kind)] + 1]
            /\ decoded' = [kind |-> kind, event |-> "nil",
                           err |-> "json.Unmarshal error", called |-> TRUE]
    /\ UNCHANGED <<registry, badger, missingLookupSet, enriched, ingested>>
    /\ UNCHANGED <<cacheVars, concVars>>

\* the caller of Enrich or Decode takes what it was handed; the handler has
\* one caller, which does so before its next call
EventDone ==
    /\ enriched.called \/ decoded.called
    /\ enriched' = NoEnrich
    /\ decoded' = NoDecode
    /\ UNCHANGED <<registry, badger, missingLookupSet, counts, ingested>>
    /\ UNCHANGED <<cacheVars, concVars>>

(***************************************************************************)
(* Goroutines sharing one Handler.  The Handler has no lock: AddAsset is    *)
(* the sequence of its loads and stores, and the steps of two goroutines    *)
(* interleave.                                                             *)
(***************************************************************************)
\* AddAsset calls made by the goroutines together
MaxCalls == 2

\* the next step of another goroutine reads or writes h.assets
OthersAtMaps(g) ==
    \E o \in Goroutines \ {g} :
        \/ goroutines[o].pc \in {"insert", "len"}
        \/ /\ goroutines[o].pc = "test"
           /\ goroutines[o].i <= Len(Keys(goroutines[o].value))

\* the next step of another goroutine writes h.assets
OthersWriting(g) ==
    \E o \in Goroutines \ {g} : goroutines[o].pc = "insert"

\* line 72, first half: h.AssetPickups is loaded
AddAssetLoad(g, value) ==
    /\ goroutines[g].pc = "idle"
    /\ calls < MaxCalls
    /\ calls' = calls + 1
    /\ goroutines' = [goroutines EXCEPT
                        ![g] = [pc |-> "loaded", value |-> value,
                                tmp |-> counts.AssetPickups, i |-> 0]]
    /\ ingested' = ingested \cup {value}
    /\ UNCHANGED <<registry, badger, missingLookupSet, counts, enriched,
                   decoded, raced>>
    /\ UNCHANGED cacheVars

\* line 72, second half: the loaded value plus one is stored
AddAssetInc(g) ==
    /\ goroutines[g].pc = "loaded"
    /\ counts' = [counts EXCEPT !.AssetPickups = goroutines[g].tmp + 1]
    /\ goroutines' = [goroutines EXCEPT ![g].pc = "test", ![g].i = 1]
    /\ UNCHANGED <<registry, badger, missingLookupSet, enriched, ingested,
                   decoded, calls, raced>>
    /\ UNCHANGED cacheVars

\* lines 73-75: the next key, and the read `_, ok := h.assets[key]`
AddAssetTest(g) ==
    /\ goroutines[g].pc = "test"
    /\ LET keys == Keys(goroutines[g].value)
           i == goroutines[g].i
       IN goroutines' =
            IF i > Len(keys) THEN [goroutines EXCEPT ![g].pc = "len"]
            ELSE IF keys[i] \in DOMAIN registry
                 THEN [goroutines EXCEPT ![g].i = i + 1]
                 ELSE [goroutines EXCEPT ![g].pc = "insert"]
    /\ UNCHANGED <<registry, badger, missingLookupSet, counts, enriched,
                   ingested, decoded, calls, raced>>
    /\ UNCHANGED cacheVars

\* lines 76-78: the counter, the store and the map are written
AddAssetInsert(g) ==
    /\ goroutines[g].pc = "insert"
    /\ LET key == Keys(goroutines[g].value)[goroutines[g].i]
       IN /\ counts' = [counts EXCEPT !.AssetUpdates = counts.AssetUpdates + 1]
          /\ badger' = Store(badger, key, goroutines[g].value)
          /\ registry' = Store(registry, key, goroutines[g].value)
    /\ goroutines' = [goroutines EXCEPT ![g].pc = "test",
                                        ![g].i = goroutines[g].i + 1]
    /\ raced' = (raced \/ OthersAtMaps(g))
    /\ UNCHANGED <<missingLookupSet, enriched, ingested, decoded, calls>>
    /\ UNCHANGED cacheVars

\* lines 81-82: h.Counts.Assets = len(h.assets), return
AddAssetLen(g) ==
    /\ goroutines[g].pc = "len"
    /\ counts' = [counts EXCEPT !.Assets = Cardinality(DOMAIN registry)]
    /\ goroutines' = [goroutines EXCEPT ![g] = IdleGoroutine]
    /\ UNCHANGED <<registry, badger, missingLookupSet, enriched, ingested,
                   decoded, calls, raced>>
    /\ UNCHANGED cacheVars

\* lines 139-152: one assetLookup of an Enrich call, reading the registry and
\* writing the missing-lookup set
AssetLookupStep(g, asset) ==
    /\ goroutines[g].pc = "idle"
    /\ missingLookupSet' = missingLookupSet \cup lookupMisses(registry, asset)
    /\ raced' = (raced \/ OthersWriting(g))
    /\ UNCHANGED <<registry, badger, counts, enriched, ingested, decoded,
                   goroutines, calls>>
    /\ UNCHANGED cacheVars

\* the runtime finds h.assets written while another goroutine is at it and
\* stops the program ("fatal error: concurrent map writes")
MapFault ==
    /\ \E g \in Goroutines : goroutines[g].pc = "insert" /\ OthersAtMaps(g)
    /\ goroutines' = [g \in Goroutines |-> [goroutines[g] EXCEPT !.pc = "fatal"]]
    /\ raced' = TRUE
    /\ UNCHANGED <<registry, badger, missingLookupSet, counts, enriched,
                   ingested, decoded, calls>>
    /\ UNCHANGED cacheVars

NextConcurrent ==
    \/ \E g \in Goroutines, value \in Records : AddAssetLoad(g, value)
    \/ \E g \in Goroutines : AddAssetInc(g)
    \/ \E g \in Goroutines : AddAssetTest(g)
    \/ \E g \in Goroutines : AddAssetInsert(g)
    \/ \E g \in Goroutines : AddAssetLen(g)
    \/ \E g \in Goroutines, asset \in Stubs : AssetLookupStep(g, asset)
    \/ MapFault

NextEnrich ==
    \/ \E order \in Orders(DOMAIN badger) : NewHandler(order)
    \/ \E value \in Records : AddAsset(value)
    \/ \E event \in Events : Enrich(event)
    \/ \E ok \in BOOLEAN, kind \in Kinds : Decode(ok, kind)
    \/ EventDone

\* the handler alone, beside a cache nobody uses
InitHandler ==
    InitEnrich /\ InitCache /\ ~wise /\ ~pruneEnabled /\ ~persistAssets

SpecEnrich == InitHandler /\ [][NextEnrich]_vars

\* two goroutines on one handler over an empty store
SpecConcurrent == InitHandler /\ [][NextConcurrent]_vars

NextCache ==
    \/ \E c \in Callers, key \in NetIPs : GetIPHit(c, key)
    \/ \E c \in Callers, key \in NetIPs : GetIPNoWise(c, key)
    \/ \E c \in Callers, key \in NetIPs : GetIPMiss(c, key)
    \/ \E c \in Callers, o \in WiseOutcomes : GetIPStore(c, o)
    \/ HkStart
    \/ HkPark
    \/ HkCtxDone
    \/ HkTick
    \/ \E k \in Addrs : PruneVisit(k)
    \/ PruneDelete
    \/ PruneDone
    \/ HkDump
    \/ CloseCancel
    \/ CloseReturn
    \/ Tick
    \/ \E c \in Configs : NewGlobalCache(c)

\* the cache alone, beside a handler nobody uses
InitGlobalCache == InitCache /\ InitEnrich

SpecCache == InitGlobalCache /\ [][NextCache]_vars

\* the scheduler runs a runnable housekeeper, the clock advances, a directory
\* call returns, and a select with the prune ticker ready again and again
\* picks it in the end (select draws among its ready cases at random)
FairSpecCache ==
    /\ SpecCache
    /\ WF_vars(Tick)
    /\ WF_vars(HkStart)
    /\ WF_vars(HkPark)
    /\ WF_vars(HkCtxDone)
    /\ WF_vars(HkDump)
    /\ SF_vars(HkTick)
    /\ WF_vars(\E k \in Addrs : PruneVisit(k))
    /\ WF_vars(PruneDelete)
    /\ WF_vars(PruneDone)
    /\ WF_vars(\E c \in Callers, o \in WiseOutcomes : GetIPStore(c, o))

(***************************************************************************)
(* Claims about GlobalCache                                                *)
(***************************************************************************)
\* some caller's wise.GetAsset returns in this step
WiseReturns == \E c \in Callers : callers[c].pc = "wise" /\ callers'[c].pc = "idle"

\* C1: with no directory service configured, GetIP on a key that is not in
\* the cache returns a record with IsAsset = FALSE and that record is in the
\* cache afterwards (so the next GetIP for the key is a hit).
C1_NoWiseMissIsStored ==
    [][\A c \in Callers, key \in NetIPs :
          (~wise /\ ret' # NoRet /\ GetIPNoWise(c, key)) =>
              /\ ~ret'.IsAsset
              /\ IPString(key) \in DOMAIN assets'
              /\ ~assets'[IPString(key)].IsAsset]_vars

\* C2: a step of the prune cycle removes a key only when the entry the key
\* holds is negative and older than the prune window.
C2_PruneDeletesOnlyOldNegatives ==
    [][hk = "prune" =>
          \A k \in DOMAIN assets \ DOMAIN assets' : Prunable(assets[k])]_vars

\* C3: with pruning enabled and the cache not closed, a negative entry older
\* than the prune window is eventually gone (deleted, or replaced).
C3_OldNegativeEventuallyPruned ==
    \A k \in Addrs :
        (pruneEnabled /\ ~cancelled /\ k \in DOMAIN assets /\ Prunable(assets[k]))
            ~> (cancelled \/ k \notin DOMAIN assets \/ ~Prunable(assets[k]))

\* C4: a cache with N positive and no negative records, one dump cycle, then
\* NewGlobalCache on the same path: exactly the same N keys, all positive.
C4_DumpReloadRoundTrip ==
    [][\A c \in Configs :
          (persistAssets /\ dumpFresh /\ NewGlobalCache(c)
             /\ \A k \in DOMAIN assets : assets[k].IsAsset)
          => /\ DOMAIN assets' = DOMAIN assets
             /\ \A k \in DOMAIN assets' :
                    assets'[k].IsAsset /\ assets'[k].ip = assets[k].ip]_vars

\* C5: Close() has returned only if the housekeeper has exited.
C5_CloseWaitsForHousekeeper == closePc = "returned" => hk = "exited"

\* C6: a GetIP whose key is in the cache returns the stored record with
\* found = TRUE, starts no directory call and stores nothing; a GetIP whose
\* key is not in the cache returns found = FALSE, also after the directory
\* resolved it; a directory call is started only for a key not in the cache.
C6_HitAndMissReturn ==
    [][/\ ret' # NoRet =>
            IF WiseReturns THEN ~ret'.found
            ELSE IF ret'.key \in DOMAIN assets
                 THEN /\ ret' = Return(ret'.key, assets[ret'.key], TRUE)
                      /\ assets' = assets
                      /\ callers' = callers
                      /\ errs' = errs
                 ELSE ~ret'.found
       /\ \A c \in Callers :
            (callers[c].pc = "idle" /\ callers'[c].pc = "wise")
                => callers'[c].key \notin DOMAIN assets]_vars

C6_Witness == ret # NoRet /\ ret.found /\ ret.IsAsset

\* C7: when the directory call of a miss returns, exactly the record of the
\* key is stored: positive on data, negative on not-found, negative on an
\* error, which is also sent to the error channel; the record is returned
\* with found = FALSE and the records of the other keys stay as they are.
C7_MissStoresOneRecord ==
    [][\A c \in Callers, o \in WiseOutcomes :
          (callers[c].pc = "wise" /\ callers'[c].pc = "idle" /\ GetIPStore(c, o)) =>
              LET k == callers[c].key IN
              /\ k \in DOMAIN assets'
              /\ assets'[k].IsAsset = (o = "data")
              /\ assets'[k].age = callers[c].age
              /\ DOMAIN assets' = DOMAIN assets \cup {k}
              /\ \A x \in DOMAIN assets \ {k} : assets'[x] = assets[x]
              /\ errs' = IF o = "error" THEN errs + 1 ELSE errs
              /\ ret' = Return(k, assets'[k], FALSE)]_vars

C7_Witness ==
    /\ errs > 0
    /\ ret # NoRet /\ ~ret.found /\ ~ret.IsAsset
    /\ ret.key \in DOMAIN assets /\ ~assets[ret.key].IsAsset
    /\ Cardinality(DOMAIN assets) > 1

(***************************************************************************)
(* Claims about the enrichment handler                                     *)
(***************************************************************************)
\* the first of the scanned records that exposes key k
FirstExposing(recs, k) ==
    recs[CHOOSE i \in 1..Len(recs) :
            /\ k \in SeqToSet(Keys(recs[i]))
            /\ \A j \in 1..(i - 1) : k \notin SeqToSet(Keys(recs[j]))]

\* C8: NewHandler maps every key to the first scanned record that exposes
\* it; a later record with the same key does not replace it.
C8_FirstWriterWins ==
    [][\A order \in Orders(DOMAIN badger) :
          NewHandler(order) =>
              \A k \in DOMAIN registry' :
                  registry'[k] = FirstExposing(Scan(order), k)]_vars

\* C9: every AddAsset raises AssetPickups by one; an AddAsset of a record
\* this handler was already given leaves the registry, the store, Assets
\* and AssetUpdates as they are.
C9_AddAssetIdempotent ==
    [][\A value \in Records :
          AddAsset(value) =>
              /\ counts'.AssetPickups = counts.AssetPickups + 1
              /\ value \in ingested =>
                    /\ registry' = registry
                    /\ badger' = badger
                    /\ counts'.Assets = counts.Assets
                    /\ counts'.AssetUpdates = counts.AssetUpdates]_vars

C9_Witness ==
    /\ counts.AssetPickups = 2
    /\ Cardinality(ingested) = 1
    /\ counts.AssetUpdates = 2
    /\ counts.Assets = 2

\* the lookup result the precedence rule asks for
Expected(stub) ==
    IF stub.ip # NilIP /\ IPString(stub.ip) \in DOMAIN registry
    THEN RecordAsset(registry[IPString(stub.ip)])
    ELSE IF stub.host # "" /\ stub.host \in DOMAIN registry
         THEN RecordAsset(registry[stub.host])
         ELSE stub

\* C10: Enrich replaces the asset by the record found under the stub's
\* address, else by the record found under its host, else leaves the stub;
\* it does the same to a source and a destination that are present and
\* leaves absent ones absent; a host that is a registry key is not added to
\* the missing set.
C10_LookupPrecedence ==
    [][(enriched'.called /\ ~enriched.called /\ enriched'.err = "") =>
          LET in == enriched'.in
              out == enriched'.out
          IN /\ out.Asset = Expected(in.Asset)
             /\ out.Source =
                    IF in.Source = NilAsset THEN NilAsset ELSE Expected(in.Source)
             /\ out.Destination =
                    IF in.Destination = NilAsset THEN NilAsset
                    ELSE Expected(in.Destination)
             /\ \A h \in missingLookupSet' \ missingLookupSet :
                    h \notin DOMAIN registry]_vars

C10_Witness ==
    /\ enriched.called
    /\ enriched.in.Asset.ip # NilIP
    /\ IPString(enriched.in.Asset.ip) \notin DOMAIN registry
    /\ enriched.in.Asset.host \in DOMAIN registry
    /\ enriched.out.Asset = RecordAsset(registry[enriched.in.Asset.host])
    /\ enriched.in.Asset.host \notin missingLookupSet
    /\ enriched.in.Source # NilAsset
    /\ enriched.in.Destination = NilAsset
    /\ missingLookupSet # {}

\* a call of Enrich, of Decode, of AddAsset happens in this step
EnrichCalled == enriched'.called /\ ~enriched.called
DecodeCalled == decoded'.called /\ ~decoded.called
AddAssetCalled == counts'.AssetPickups = counts.AssetPickups + 1

\* the stubs Enrich looks up in an event
LookedUp(event) ==
    IF event = NilGameAsset THEN {}
    ELSE {event.Asset} \cup ({event.Source, event.Destination} \ {NilAsset})

\* the hosts of the looked-up stubs that matched no registry key
MissedHosts(reg, event) ==
    {stub.host : stub \in
        {x \in LookedUp(event) :
            /\ x.host # ""
            /\ ~(x.ip # NilIP /\ IPString(x.ip) \in DOMAIN reg)
            /\ x.host \notin DOMAIN reg}}

\* C11: an Enrich call adds to the missing-lookup set exactly the non-empty
\* hosts of the looked-up stubs (asset, source, destination) that matched no
\* registry key by address or by host, a host already in the set stays once,
\* a stub with an empty host adds nothing; AddAsset, Decode and the caller
\* taking its result leave the set as it is.
C11_MissingSetExact ==
    [][/\ EnrichCalled =>
            missingLookupSet' =
                missingLookupSet \cup MissedHosts(registry, enriched'.in)
       /\ (AddAssetCalled \/ DecodeCalled \/ enriched.called \/ decoded.called)
            => missingLookupSet' = missingLookupSet]_vars

C11_Witness ==
    /\ enriched.called /\ enriched.err = ""
    /\ registry # NoMap
    /\ enriched.in.Asset.host # ""
    /\ enriched.in.Asset.host \notin DOMAIN registry
    /\ enriched.in.Destination # NilAsset
    /\ IPString(enriched.in.Destination.ip) \notin DOMAIN registry
    /\ missingLookupSet = {enriched.in.Asset.host}

\* C12: Enrich on an event with no asset sub-object returns the
\* missing-asset-data error and leaves the event, the registry, the
\* missing-lookup set and the counters as they are; no Enrich and no Decode
\* call changes the registry.
C12_MissingAssetData ==
    [][/\ (EnrichCalled /\ enriched'.in = NilGameAsset) =>
            /\ enriched'.err = "ErrMissingAssetData"
            /\ enriched'.out = enriched'.in
            /\ missingLookupSet' = missingLookupSet
            /\ counts' = counts
       /\ (EnrichCalled \/ DecodeCalled) =>
            /\ registry' = registry
            /\ badger' = badger]_vars

C12_Witness ==
    /\ enriched.called /\ enriched.err = "ErrMissingAssetData"
    /\ registry # NoMap
    /\ missingLookupSet # {}
    /\ counts.Events > 0

\* C13: every Decode raises Events by one; a failed decode of kind K raises
\* K's parse-error counter alone by one and returns a DecodeError; a
\* successful decode changes no parse-error counter.
C13_DecodeCountsAndError ==
    [][DecodeCalled =>
          /\ counts'.Events = counts.Events + 1
          /\ IF decoded'.err # "nil"
             THEN /\ counts'.ParseErrs =
                        [counts.ParseErrs EXCEPT
                            ![ParseErrCounter(decoded'.kind)] = @ + 1]
                  /\ decoded'.err = "DecodeError"
             ELSE counts'.ParseErrs = counts.ParseErrs]_vars

\* the records this handler was given: scanned at construction (every stored
\* value), or passed to AddAsset
IngestedRecords == ingested \cup {badger[k] : k \in DOMAIN badger}

\* the registry keys are the keys of the ingested records, and Assets counts
\* them
RegistryMatchesIngested ==
    /\ DOMAIN registry = UNION {SeqToSet(Keys(r)) : r \in IngestedRecords}
    /\ counts.Assets = Cardinality(DOMAIN registry)

\* C17: after construction and after every AddAsset, Decode and Enrich the
\* registry keys are the union of Keys() over the ingested records and
\* Assets is their number; these calls remove and remap no key; AssetUpdates
\* grows by the number of keys an AddAsset inserts and by nothing else.
C17_RegistryKeysAreIngestedKeys ==
    [][/\ RegistryMatchesIngested'
       /\ (AddAssetCalled \/ DecodeCalled \/ EnrichCalled) =>
            /\ \A k \in DOMAIN registry :
                    k \in DOMAIN registry' /\ registry'[k] = registry[k]
            /\ counts'.AssetUpdates =
                    counts.AssetUpdates
                        + Cardinality(DOMAIN registry' \ DOMAIN registry)
            /\ AddAssetCalled \/ registry' = registry]_vars

C17_Witness ==
    /\ Cardinality(ingested) = 1
    /\ counts.AssetPickups = 1
    /\ counts.AssetUpdates = 1
    /\ counts.Assets = 3
    /\ counts.Events = 1

\* C19: a NewHandler over the store a handler built from an empty store has
\* filled by AddAsset yields the registry that handler had: the same keys,
\* each mapped to the same record.
C19_PersistRoundTrip ==
    [][\A order \in Orders(DOMAIN badger) :
          (registry = badger /\ NewHandler(order)) => registry' = registry]_vars

\* C20: a Decode never returns a nil event together with a nil error.
C20_DecodeNeverBothNil ==
    decoded.called => (decoded.err # "nil" \/ decoded.event # "nil")

\* all calls of the goroutines have returned
Quiescent == \A g \in Goroutines : goroutines[g].pc = "idle"

\* C14: when goroutines call AddAsset and Enrich on one Handler at once, no
\* two of them are at the handler's maps together with one writing, and once
\* their calls have returned AssetPickups is the number of AddAsset calls,
\* Assets is the size of the registry and every key of every record given
\* is in the registry.
C14_ConcurrentCallsSafe ==
    /\ ~raced
    /\ Quiescent =>
        /\ counts.AssetPickups = calls
        /\ counts.Assets = Cardinality(DOMAIN registry)
        /\ \A r \in ingested : SeqToSet(Keys(r)) \subseteq DOMAIN registry

(***************************************************************************)
(* Further claims about GlobalCache                                        *)
(***************************************************************************)
\* the JSON lines of the records with IsAsset = TRUE
PositiveLines == {AssetJSON(assets[k]) : k \in {x \in DOMAIN assets : assets[x].IsAsset}}

\* C15: the persistence file changes only in a dump cycle with a path
\* configured and a positive record in the cache; its new content is the
\* positive records, one line each, and no negative record; a dump cycle
\* that finds no positive record, or whose Create fails and sends the error
\* to the channel, leaves the file as it was.
C15_DumpWritesPositivesOnly ==
    [][/\ file' # file =>
            /\ HkDump
            /\ persistAssets
            /\ PositiveLines # {}
            /\ SeqToSet(file') = PositiveLines
            /\ Len(file') = Cardinality(PositiveLines)
            /\ \A i \in 1..Len(file') : file'[i].IsAsset
       /\ (hk' = "tickers" /\ elapsed' = 0 /\ HkDump
              /\ (PositiveLines = {} \/ errs' # errs \/ ~persistAssets))
            => file' = file]_vars

C15_Witness ==
    /\ Len(file) = 1
    /\ Cardinality(DOMAIN assets) = 2
    /\ \E k \in DOMAIN assets : ~assets[k].IsAsset
    /\ SeqToSet(file) = PositiveLines
    /\ dumpFresh
    /\ errs > 0

\* C16: after Close() cancelled the context the housekeeper starts at most
\* one more prune or dump cycle before it exits.
C16_OneCycleAfterCancel == drainCycles <= 1

\* C18: a key that holds a positive record keeps holding a positive record
\* for as long as the cache lives: no step removes it or stores a negative
\* record under it.
C18_PositiveStaysPositive ==
    [][~(closePc = "returned" /\ closePc' = "idle") =>
          \A k \in DOMAIN assets :
              assets[k].IsAsset =>
                  k \in DOMAIN assets' /\ assets'[k].IsAsset]_vars

====
